---- MODULE Spec2Model ----
(***************************************************************************)
(* Cheque payment reminder job: src/main.py (the cron job,                 *)
(* SharePointSharedLinkReminder) and src/api/reminder.py (the HTTP         *)
(* handler's ReminderService).  Text is modelled as sequences of one      *)
(* character strings, so that lower-casing, stripping, splitting and       *)
(* substring tests are computed the way the Python code computes them.     *)
(***************************************************************************)
EXTENDS Integers, Sequences, FiniteSets, TLC

VARIABLES
    impl,          \* "main" (src/main.py) or "api" (src/api/reminder.py)
    url,           \* sharepoint_shared_url / config['sharepoint_url']
    recipients,    \* RECIPIENT_EMAILS, the comma-separated string
    creds,         \* SMTP_SERVER, EMAIL_USERNAME, EMAIL_PASSWORD (<<>>: not set)
    today,         \* datetime.now().date()
    server,        \* the outcomes an HTTP GET may have in this run
    pc,            \* position in the run
    urls_to_try,   \* download_excel_file: candidate URLs
    attempt,       \* download_excel_file: loop index i (1-based)
    response,      \* download_excel_file: outcome of the last GET
    gets,          \* download_excel_file: the GETs its loop has issued, in order
    excel_file,    \* result of download_excel_file
    px,            \* locals of parse_excel_data / find_header_row_and_columns
    parsed,        \* result of parse_excel_data
    reminders,     \* result of find_reminders_needed
    mail,          \* locals of send_email_reminder / send_email
    result         \* what run_reminder_check returns

vars == <<impl, url, recipients, creds, today, server, pc, urls_to_try, attempt,
          response, gets, excel_file, px, parsed, reminders, mail, result>>

\* what a run is given: it never changes
env == <<impl, url, recipients, creds, today, server>>

(***************************************************************************)
(* Text helpers (Python str methods)                                       *)
(***************************************************************************)
UpperChars == <<"A","B","C","D","E","F","G","H","I","J","K","L","M",
                "N","O","P","Q","R","S","T","U","V","W","X","Y","Z">>
LowerChars == <<"a","b","c","d","e","f","g","h","i","j","k","l","m",
                "n","o","p","q","r","s","t","u","v","w","x","y","z">>

\* str.isspace() characters that occur in the model ("NBSP" is U+00A0)
WhiteSpace == {" ", "\n", "\r", "\t", "NBSP"}

LowerChar(c) ==
    IF \E k \in 1..26 : UpperChars[k] = c
    THEN LowerChars[CHOOSE k \in 1..26 : UpperChars[k] = c]
    ELSE c

\* str.lower()
Lower(s) == [k \in 1..Len(s) |-> LowerChar(s[k])] \o <<>>

\* str.startswith(p)
StartsWith(s, p) == Len(s) >= Len(p) /\ SubSeq(s, 1, Len(p)) = p

\* p in s
Contains(s, p) ==
    \E k \in 1..(Len(s) - Len(p) + 1) : SubSeq(s, k, k + Len(p) - 1) = p

\* str.find(p), 1-based; 0 when absent
Find(s, p) ==
    IF Contains(s, p)
    THEN CHOOSE k \in 1..(Len(s) - Len(p) + 1) :
            /\ SubSeq(s, k, k + Len(p) - 1) = p
            /\ \A j \in 1..(k - 1) : SubSeq(s, j, j + Len(p) - 1) # p
    ELSE 0

\* str.replace(old, new): non-overlapping occurrences, left to right
RECURSIVE Replace(_, _, _)
Replace(s, old, new) ==
    LET k == Find(s, old) IN
    IF k = 0 THEN s
    ELSE SubSeq(s, 1, k - 1) \o new
         \o Replace(SubSeq(s, k + Len(old), Len(s)), old, new)

\* every occurrence of the characters of cs removed (chained replace(c, ''))
RemoveChars(s, cs) == SelectSeq(s, LAMBDA c : c \notin cs)

\* each character of cs replaced by a space (chained replace(c, ' '))
CharsToSpace(s, cs) ==
    [k \in 1..Len(s) |-> IF s[k] \in cs THEN " " ELSE s[k]] \o <<>>

\* str.strip()
RECURSIVE LStrip(_)
LStrip(s) == IF s # <<>> /\ Head(s) \in WhiteSpace THEN LStrip(Tail(s)) ELSE s
RECURSIVE RStrip(_)
RStrip(s) ==
    IF s # <<>> /\ s[Len(s)] \in WhiteSpace
    THEN RStrip(SubSeq(s, 1, Len(s) - 1)) ELSE s
Strip(s) == RStrip(LStrip(s))

\* str.split(): the maximal runs of non-whitespace characters
RECURSIVE SplitWords(_, _, _)
SplitWords(s, cur, acc) ==
    IF s = <<>> THEN (IF cur = <<>> THEN acc ELSE Append(acc, cur))
    ELSE IF Head(s) \in WhiteSpace
         THEN SplitWords(Tail(s), <<>>, IF cur = <<>> THEN acc ELSE Append(acc, cur))
         ELSE SplitWords(Tail(s), Append(cur, Head(s)), acc)
Split(s) == SplitWords(s, <<>>, <<>>)

\* ' '.join(words)
RECURSIVE JoinSpace(_)
JoinSpace(ws) ==
    IF ws = <<>> THEN <<>>
    ELSE IF Len(ws) = 1 THEN ws[1]
    ELSE ws[1] \o <<" ">> \o JoinSpace(Tail(ws))

\* ' '.join(s.split())
Collapse(s) == JoinSpace(Split(s))

\* s.split('?')[0]
BeforeFirst(s, c) ==
    IF \E k \in 1..Len(s) : s[k] = c
    THEN SubSeq(s, 1, (CHOOSE k \in 1..Len(s) :
                          s[k] = c /\ \A j \in 1..(k - 1) : s[j] # c) - 1)
    ELSE s

\* list(dict.fromkeys(xs)): duplicates removed, first-seen order kept
RECURSIVE Dedupe(_)
Dedupe(xs) ==
    IF xs = <<>> THEN <<>>
    ELSE LET init == Dedupe(SubSeq(xs, 1, Len(xs) - 1))
             x    == xs[Len(xs)]
         IN IF \E k \in 1..Len(init) : init[k] = x THEN init ELSE Append(init, x)

(***************************************************************************)
(* Link Resolver                                                           *)
(***************************************************************************)
S_sharepoint == <<"s","h","a","r","e","p","o","i","n","t",".","c","o","m">>
S_edit       == <<"/",":","x",":","/">>
S_view       == <<"/",":","b",":","/">>
S_download1  == <<"d","o","w","n","l","o","a","d","=","1">>
S_q          == <<"?">>
S_amp        == <<"&">>

\* faulty variant: leaves the edit segment in place
convert_keep_segment(shared_url) ==
    IF Contains(shared_url, S_sharepoint)
       /\ (Contains(shared_url, S_edit) \/ Contains(shared_url, S_view))
    THEN IF ~Contains(shared_url, S_download1)
         THEN shared_url
              \o (IF Contains(shared_url, S_q) THEN S_amp ELSE S_q) \o S_download1
         ELSE shared_url
    ELSE shared_url

\* faulty variant: does not ask for the "sharepoint.com" host marker
convert_any_host(shared_url) ==
    IF Contains(shared_url, S_edit) \/ Contains(shared_url, S_view)
    THEN LET download_url ==
                 IF Contains(shared_url, S_edit)
                 THEN Replace(shared_url, S_edit, S_view)
                 ELSE shared_url
         IN IF ~Contains(download_url, S_download1)
            THEN download_url
                 \o (IF Contains(download_url, S_q) THEN S_amp ELSE S_q)
                 \o S_download1
            ELSE download_url
    ELSE shared_url

convert_sharepoint_url_to_direct_download(shared_url) ==
    IF Contains(shared_url, S_sharepoint)
       /\ (Contains(shared_url, S_edit) \/ Contains(shared_url, S_view))
    THEN LET download_url ==
                 IF Contains(shared_url, S_edit)
                 THEN Replace(shared_url, S_edit, S_view)
                 ELSE shared_url
         IN IF ~Contains(download_url, S_download1)
            THEN download_url
                 \o (IF Contains(download_url, S_q) THEN S_amp ELSE S_q)
                 \o S_download1
            ELSE download_url
    ELSE shared_url

\* urls_to_try before the duplicates are removed
CandidateList(u) ==
    LET base_url == IF Contains(u, S_q) THEN BeforeFirst(u, "?") ELSE u
    IN << u,
          convert_sharepoint_url_to_direct_download(u),
          base_url \o S_q \o S_download1,
          IF Contains(u, S_q) THEN u \o S_amp \o S_download1
                              ELSE u \o S_q \o S_download1 >>

BuildUrlsToTry(u) == Dedupe(CandidateList(u))

(***************************************************************************)
(* Fetcher                                                                 *)
(***************************************************************************)
S_text_html   == <<"t","e","x","t","/","h","t","m","l">>
S_DOCTYPE     == <<"<","!","D","O","C","T","Y","P","E">>
S_PK          == <<"P","K">>
S_excel       == <<"e","x","c","e","l">>
S_spreadsheet == <<"s","p","r","e","a","d","s","h","e","e","t">>
S_openxml     == <<"v","n","d",".","o","p","e","n","x","m","l","f","o","r","m","a","t","s">>
S_octet       == <<"a","p","p","l","i","c","a","t","i","o","n","/","o","c","t","e","t","-","s","t","r","e","a","m">>

\* len(response.content) > 1000
MinPlausibleSize == 1000

\* a workbook that cannot be opened (no sheet behind the bytes)
NoBook == [valid |-> FALSE, grid |-> <<>>, fmt |-> 0]

\* None, where a BytesIO was expected
NoFile == [head |-> <<>>, len |-> 0 - 1, book |-> NoBook]

NoResponse == [exc |-> FALSE, status_code |-> 0, content_type |-> <<>>, content |-> NoFile]

\* 'text/html' in content_type or response.content.startswith(b'<!DOCTYPE')
LooksLikeHtml(r) ==
    \/ Contains(Lower(r.content_type), S_text_html)
    \/ StartsWith(r.content.head, S_DOCTYPE)

\* the spreadsheet test of main.py
MainLooksLikeExcel(r) ==
    /\ r.content.len > MinPlausibleSize
    /\ \/ Contains(Lower(r.content_type), S_excel)
       \/ Contains(Lower(r.content_type), S_spreadsheet)
       \/ Contains(Lower(r.content_type), S_openxml)
       \/ Contains(Lower(r.content_type), S_octet)
       \/ StartsWith(r.content.head, S_PK)

\* the spreadsheet test of api/reminder.py
ApiLooksLikeExcel(r) ==
    \/ Contains(Lower(r.content_type), S_excel)
    \/ Contains(Lower(r.content_type), S_spreadsheet)
    \/ Contains(Lower(r.content_type), S_openxml)
    \/ StartsWith(r.content.head, S_PK)

\* whether the loop body returns io.BytesIO(response.content) for this outcome
Accepts(im, r) ==
    /\ ~r.exc
    /\ r.status_code = 200
    /\ IF im = "main"
       THEN ~LooksLikeHtml(r) /\ MainLooksLikeExcel(r)
       ELSE ApiLooksLikeExcel(r)

\* download_excel_file, up to the loop
BuildUrls ==
    /\ pc = "download"
    /\ urls_to_try' = BuildUrlsToTry(url)
    /\ attempt' = 1
    /\ gets' = <<>>
    /\ pc' = "get"
    /\ UNCHANGED <<env, response, excel_file, px, parsed, reminders, mail, result>>

\* faulty variant: walks the candidates from the last to the first
CandidateAt_Reversed(urls, i) == urls[Len(urls) + 1 - i]

\* `for i, url in enumerate(urls_to_try)`: the candidate of iteration i
CandidateAt(urls, i) == urls[i]

\* faulty variant: an exception of the GET ends the loop (n: the candidates)
NextAttempt_AbortOnException(i, r, n) == IF r.exc THEN n + 1 ELSE i + 1

\* the iteration after one that did not return: `continue`, the end of the
\* loop body and the except clause all go on with the next candidate
NextAttempt(i, r, n) == i + 1

\* one iteration of the loop over urls_to_try: the GET and what is made of it
Request ==
    /\ pc = "get"
    /\ attempt <= Len(urls_to_try)
    /\ \E r \in server :
         /\ response' = r
         /\ gets' = Append(gets, [url |-> CandidateAt(urls_to_try, attempt),
                                   exc |-> r.exc, accepted |-> Accepts(impl, r)])
         /\ IF Accepts(impl, r)
            THEN /\ excel_file' = r.content
                 /\ pc' = "downloaded"
                 /\ UNCHANGED attempt
            ELSE /\ attempt' = NextAttempt(attempt, r, Len(urls_to_try))
                 /\ UNCHANGED <<excel_file, pc>>
    /\ UNCHANGED <<env, urls_to_try, px, parsed, reminders, mail, result>>

\* the loop ran out of candidates: return None
DownloadFail ==
    /\ pc = "get"
    /\ attempt > Len(urls_to_try)
    /\ excel_file' = NoFile
    /\ pc' = "downloaded"
    /\ UNCHANGED <<env, urls_to_try, attempt, response, gets, px, parsed,
                   reminders, mail, result>>

(***************************************************************************)
(* Calendar dates and the date formats (strptime / strftime)               *)
(***************************************************************************)
\* a date is <<year, month, day>>; NoDate stands for "no date" (NaT)
NoDate == <<0, 0, 0>>

IsLeap(y) == (y % 4 = 0 /\ y % 100 # 0) \/ y % 400 = 0

DaysInMonth(y, m) ==
    IF m = 2 THEN (IF IsLeap(y) THEN 29 ELSE 28)
    ELSE IF m \in {4, 6, 9, 11} THEN 30 ELSE 31

ValidDate(y, m, d) == y >= 1 /\ m \in 1..12 /\ d >= 1 /\ d <= DaysInMonth(y, m)

NextDay(dt) ==
    IF dt[3] < DaysInMonth(dt[1], dt[2]) THEN <<dt[1], dt[2], dt[3] + 1>>
    ELSE IF dt[2] < 12 THEN <<dt[1], dt[2] + 1, 1>>
    ELSE <<dt[1] + 1, 1, 1>>

\* date + timedelta(days=n), n >= 0
RECURSIVE AddDays(_, _)
AddDays(dt, n) == IF n = 0 THEN dt ELSE AddDays(NextDay(dt), n - 1)

DigitChars == <<"0","1","2","3","4","5","6","7","8","9">>

IsDigit(c) == \E k \in 1..10 : DigitChars[k] = c
DigitVal(c) == (CHOOSE k \in 1..10 : DigitChars[k] = c) - 1
IsDigits(s) == s # <<>> /\ \A k \in 1..Len(s) : IsDigit(s[k])

RECURSIVE NumVal(_)
NumVal(s) ==
    IF s = <<>> THEN 0
    ELSE 10 * NumVal(SubSeq(s, 1, Len(s) - 1)) + DigitVal(s[Len(s)])

\* n written with w digits, zero padded
RECURSIVE Digits(_, _)
Digits(n, w) ==
    IF w = 0 THEN <<>>
    ELSE Append(Digits(n \div 10, w - 1), DigitChars[(n % 10) + 1])

\* str(n) for n >= 0
RECURSIVE IntStr(_)
IntStr(n) == IF n < 10 THEN <<DigitChars[n + 1]>>
             ELSE Append(IntStr(n \div 10), DigitChars[(n % 10) + 1])

MonthAbbr == << <<"J","a","n">>, <<"F","e","b">>, <<"M","a","r">>, <<"A","p","r">>,
                <<"M","a","y">>, <<"J","u","n">>, <<"J","u","l">>, <<"A","u","g">>,
                <<"S","e","p">>, <<"O","c","t">>, <<"N","o","v">>, <<"D","e","c">> >>

\* s.split(c) for a one-character separator
RECURSIVE SplitOnAcc(_, _, _, _)
SplitOnAcc(s, c, cur, acc) ==
    IF s = <<>> THEN Append(acc, cur)
    ELSE IF Head(s) = c THEN SplitOnAcc(Tail(s), c, <<>>, Append(acc, cur))
    ELSE SplitOnAcc(Tail(s), c, Append(cur, Head(s)), acc)
SplitOn(s, c) == SplitOnAcc(s, c, <<>>, <<>>)

\* the value a strptime directive reads from a whole field, or -1
\*   %d: one or two digits, 1..31   %m: one or two digits, 1..12
\*   %y: two digits (00-68 -> 20xx, 69-99 -> 19xx)   %Y: four digits
\*   %b: an abbreviated month name, in any letter case
FieldValue(dir, f) ==
    CASE dir = "d" -> IF IsDigits(f) /\ Len(f) <= 2 /\ NumVal(f) \in 1..31
                      THEN NumVal(f) ELSE 0 - 1
      [] dir = "m" -> IF IsDigits(f) /\ Len(f) <= 2 /\ NumVal(f) \in 1..12
                      THEN NumVal(f) ELSE 0 - 1
      [] dir = "y" -> IF IsDigits(f) /\ Len(f) = 2
                      THEN (IF NumVal(f) < 69 THEN 2000 + NumVal(f) ELSE 1900 + NumVal(f))
                      ELSE 0 - 1
      [] dir = "Y" -> IF IsDigits(f) /\ Len(f) = 4 THEN NumVal(f) ELSE 0 - 1
      [] dir = "b" -> IF \E k \in 1..12 : Lower(MonthAbbr[k]) = Lower(f)
                      THEN CHOOSE k \in 1..12 : Lower(MonthAbbr[k]) = Lower(f)
                      ELSE 0 - 1

\* a format: the separator and the three directives, in order
Fmt(sep, a, b, c) == [sep |-> sep, dirs |-> <<a, b, c>>]

\* date_formats of parse_excel_data, in list order
date_formats == <<
    Fmt("-", "d", "b", "y"),    \* %d-%b-%y
    Fmt("-", "d", "b", "Y"),    \* %d-%b-%Y
    Fmt("/", "d", "m", "y"),    \* %d/%m/%y
    Fmt("/", "d", "m", "Y"),    \* %d/%m/%Y
    Fmt("-", "Y", "m", "d"),    \* %Y-%m-%d
    Fmt("/", "m", "d", "Y"),    \* %m/%d/%Y
    Fmt(".", "d", "m", "Y"),    \* %d.%m.%Y
    Fmt("/", "Y", "m", "d"),    \* %Y/%m/%d
    Fmt("-", "d", "m", "y"),    \* %d-%m-%y
    Fmt("-", "d", "m", "Y") >>  \* %d-%m-%Y

\* datetime.strptime(s, fmt).date(), NoDate when s does not match
Strptime(s, fmt) ==
    LET fs == SplitOn(s, fmt.sep) IN
    IF Len(fs) # 3 THEN NoDate
    ELSE LET v == [k \in 1..3 |-> FieldValue(fmt.dirs[k], fs[k])]
             pos(dirset) == CHOOSE k \in 1..3 : fmt.dirs[k] \in dirset
             y == v[pos({"y", "Y"})]
             m == v[pos({"m", "b"})]
             d == v[pos({"d"})]
         IN IF (\A k \in 1..3 : v[k] >= 0) /\ ValidDate(y, m, d)
            THEN <<y, m, d>> ELSE NoDate

\* date.strftime(fmt)
Strftime(dt, fmt) ==
    LET field(dir) ==
            CASE dir = "d" -> Digits(dt[3], 2)
              [] dir = "m" -> Digits(dt[2], 2)
              [] dir = "y" -> Digits(dt[1] % 100, 2)
              [] dir = "Y" -> Digits(dt[1], 4)
              [] dir = "b" -> MonthAbbr[dt[2]]
    IN field(fmt.dirs[1]) \o <<fmt.sep>> \o field(fmt.dirs[2])
       \o <<fmt.sep>> \o field(fmt.dirs[3])

(***************************************************************************)
(* Cells, tables and pd.read_excel                                         *)
(***************************************************************************)
\* a cell: empty (NaN), text, a parsed date, or NaT
NaN    == [t |-> "nan", s |-> <<>>, d |-> NoDate]
NaT    == [t |-> "nat", s |-> <<>>, d |-> NoDate]
Txt(s) == [t |-> "s", s |-> s, d |-> NoDate]
Dt(d)  == [t |-> "dt", s |-> <<>>, d |-> d]

S_nan     == <<"n","a","n">>
S_NaT     == <<"N","a","T">>
S_Unnamed == <<"U","n","n","a","m","e","d",":"," ">>

\* str(cell) / astype(str)
CellStr(c) ==
    CASE c.t = "nan" -> S_nan
      [] c.t = "nat" -> S_NaT
      [] c.t = "s"   -> c.s
      [] c.t = "dt"  -> Digits(c.d[1], 4) \o <<"-">> \o Digits(c.d[2], 2)
                         \o <<"-">> \o Digits(c.d[3], 2)

\* pd.isna(cell)
IsNa(c) == c.t \in {"nan", "nat"}

\* None, pd.DataFrame() and a frame with columns and rows
NoneTable  == [none |-> TRUE, columns |-> <<>>, rows |-> <<>>]
EmptyFrame == [none |-> FALSE, columns |-> <<>>, rows |-> <<>>]
Frame(columns, rows) == [none |-> FALSE, columns |-> columns, rows |-> rows]

\* faulty variant: takes every table for one with rows
IsEmpty_Never(df) == FALSE

\* df.empty
IsEmpty(df) == Len(df.columns) = 0 \/ Len(df.rows) = 0

\* position of the first column with this name, 0 when there is none
ColIndex(df, name) ==
    IF \E k \in 1..Len(df.columns) : df.columns[k] = name
    THEN CHOOSE k \in 1..Len(df.columns) :
            df.columns[k] = name /\ \A j \in 1..(k - 1) : df.columns[j] # name
    ELSE 0

HasColumn(df, name) == ColIndex(df, name) > 0

\* df[name] as a sequence of cells
Column(df, name) == [r \in 1..Len(df.rows) |-> df.rows[r][ColIndex(df, name)]]

\* df[name] = cells
SetColumn(df, name, cells) ==
    [df EXCEPT !.rows = [r \in 1..Len(df.rows) |->
                            [df.rows[r] EXCEPT ![ColIndex(df, name)] = cells[r]]]]

\* df[mask]: the rows at which the boolean sequence mask is TRUE
FilterRows(df, mask) ==
    LET idx == SelectSeq([r \in 1..Len(df.rows) |-> r], LAMBDA r : mask[r])
    IN [df EXCEPT !.rows = [k \in 1..Len(idx) |-> df.rows[idx[k]]]]

\* the column names pandas makes of a header row: "Unnamed: k" for an empty
\* cell, and ".n" appended to the n-th repetition of a name
HeaderNames(row) ==
    LET raw == [k \in 1..Len(row) |->
                   IF row[k].t = "nan" THEN S_Unnamed \o IntStr(k - 1)
                   ELSE CellStr(row[k])]
        seen(k) == Cardinality({j \in 1..(k - 1) : raw[j] = raw[k]})
    IN [k \in 1..Len(row) |->
           IF seen(k) = 0 THEN raw[k] ELSE raw[k] \o <<".">> \o IntStr(seen(k))]

\* whether pd.read_excel(excel_file, header=h) raises
ReadFails(file, h) == ~file.book.valid \/ h >= Len(file.book.grid)

\* pd.read_excel(excel_file, header=h), h zero-based
ReadExcel(file, h) ==
    Frame(HeaderNames(file.book.grid[h + 1]),
          SubSeq(file.book.grid, h + 2, Len(file.book.grid)))

(***************************************************************************)
(* Header Locator (main.py find_header_row_and_columns)                    *)
(***************************************************************************)
T_mode == <<"m","o","d","e"," ","o","f"," ","p","a","y","m","e","n","t">>
T_date == <<"p","a","y","m","e","n","t"," ","d","u","e"," ","[","d","a","t","e","]">>
target_columns == <<T_mode, T_date>>

SampleRows   == 10   \* nrows=10
ScanRows     == 6    \* range(min(6, len(sample_df)))
FallbackRows == 5    \* range(min(5, len(sample_df)))

Min(a, b) == IF a < b THEN a ELSE b

Brackets == {"[", "]"}

\* all(word in text for word in words)
AllWordsIn(words, text) == \A k \in 1..Len(words) : Contains(text, words[k])

\* the tier at which a cleaned cell matches a target: 2 (exact, assigns the
\* position), 1 (all words, assigns the position if none yet), 0 (no match)
MatchTier(clean_cell, target) ==
    LET target_clean == Lower(RemoveChars(target, {" "} \cup Brackets))
        cell_clean   == Lower(RemoveChars(clean_cell, {" "} \cup Brackets))
    IN IF cell_clean = target_clean THEN 2
       ELSE IF Lower(clean_cell) = target THEN 2
       ELSE IF AllWordsIn(Split(RemoveChars(target, Brackets)), clean_cell) THEN 1
       ELSE 0

\* faulty variant: records the column before the matching one
ScoreStep_WrongColumn(acc, col_idx, clean_cell, t) ==
    LET tier == MatchTier(clean_cell, target_columns[t]) IN
    IF tier = 2
    THEN [matches |-> acc.matches + 2, pos |-> [acc.pos EXCEPT ![t] = col_idx - 1]]
    ELSE IF tier = 1
    THEN [matches |-> acc.matches + 1,
          pos |-> IF acc.pos[t] = 0 THEN [acc.pos EXCEPT ![t] = col_idx - 1]
                  ELSE acc.pos]
    ELSE acc

\* one (cell, target) step of the scoring loops; acc.pos[t] = 0 when target t
\* has no position yet, else the one-based column
ScoreStep(acc, col_idx, clean_cell, t) ==
    LET tier == MatchTier(clean_cell, target_columns[t]) IN
    IF tier = 2
    THEN [matches |-> acc.matches + 2, pos |-> [acc.pos EXCEPT ![t] = col_idx]]
    ELSE IF tier = 1
    THEN [matches |-> acc.matches + 1,
          pos |-> IF acc.pos[t] = 0 THEN [acc.pos EXCEPT ![t] = col_idx] ELSE acc.pos]
    ELSE acc

\* the loop over the cells of one row
RECURSIVE ScoreCells(_, _, _)
ScoreCells(row, col_idx, acc) ==
    IF col_idx > Len(row) THEN acc
    ELSE LET cell_value == Strip(Lower(CellStr(row[col_idx]))) IN
         IF cell_value # S_nan /\ Strip(cell_value) # <<>>
         THEN LET clean_cell == Collapse(cell_value)
              IN ScoreCells(row, col_idx + 1,
                     ScoreStep(ScoreStep(acc, col_idx, clean_cell, 1),
                               col_idx, clean_cell, 2))
         ELSE ScoreCells(row, col_idx + 1, acc)

RowScore(row) == ScoreCells(row, 1, [matches |-> 0, pos |-> <<0, 0>>])

\* the sample the scan reads
SampleOf(file) == SubSeq(file.book.grid, 1, Min(SampleRows, Len(file.book.grid)))

\* the score of each scanned row, in scan order
RowScores(file) ==
    LET sample_df == SampleOf(file)
    IN [r \in 1..Min(ScanRows, Len(sample_df)) |-> RowScore(sample_df[r]).matches]
       \o <<>>

\* the zero-based rows that are header candidates (matches > 0)
HeaderCandidates(scores) == {r \in 0..(Len(scores) - 1) : scores[r + 1] > 0}

\* header_candidates: (row_idx, matches) of the rows with matches > 0, in
\* scan order
header_candidates(scores) ==
    LET rows == SelectSeq([k \in 1..Len(scores) |-> k - 1], LAMBDA r : scores[r + 1] > 0)
    IN [k \in 1..Len(rows) |-> [row_idx |-> rows[k], matches |-> scores[rows[k] + 1]]]
       \o <<>>

\* faulty variant: an unstable sort, the later of two equal rows comes first
RECURSIVE SortByMatches_Unstable(_)
SortByMatches_Unstable(cands) ==
    IF cands = <<>> THEN <<>>
    ELSE LET init == SortByMatches_Unstable(SubSeq(cands, 1, Len(cands) - 1))
             x    == cands[Len(cands)]
         IN SelectSeq(init, LAMBDA c : c.matches > x.matches) \o <<x>>
            \o SelectSeq(init, LAMBDA c : c.matches <= x.matches)

\* list.sort(key=lambda x: x[1], reverse=True): descending by matches and
\* stable, so candidates with equal matches keep their scan order
RECURSIVE SortByMatches(_)
SortByMatches(cands) ==
    IF cands = <<>> THEN <<>>
    ELSE LET init == SortByMatches(SubSeq(cands, 1, Len(cands) - 1))
             x    == cands[Len(cands)]
         IN SelectSeq(init, LAMBDA c : c.matches >= x.matches) \o <<x>>
            \o SelectSeq(init, LAMBDA c : c.matches < x.matches)

\* best_header_row, best_score, _ = header_candidates[0] after the sort
BestHeaderRow(scores) == SortByMatches(header_candidates(scores))[1].row_idx

\* the clean-up of a column name
CleanName(col) == Collapse(CharsToSpace(Strip(col), {"\n", "\r", "NBSP"}))

CleanColumns(df) ==
    [df EXCEPT !.columns = [k \in 1..Len(df.columns) |-> CleanName(df.columns[k])]
                           \o <<>>]

\* the rows the fallback accepts as header: read_excel succeeds, frame not empty
FallbackRowsOk(file) ==
    {h \in 0..(Min(FallbackRows, Len(SampleOf(file))) - 1) :
        ~ReadFails(file, h) /\ ~IsEmpty(ReadExcel(file, h))}

\* faulty variant: goes on to the last row that yields a table
LastFallbackRow(fallback) == CHOOSE h \in fallback : \A q \in fallback : h >= q

\* the fallback loop returns at the first row, in index order, that it accepts
FirstFallbackRow(fallback) == CHOOSE h \in fallback : \A q \in fallback : h <= q

\* find_header_row_and_columns: [df, header_row], df = NoneTable for (None, None)
find_header_row_and_columns(file) ==
    IF ~file.book.valid THEN [df |-> NoneTable, header_row |-> 0 - 1]
    ELSE LET scores   == RowScores(file)
             fallback == FallbackRowsOk(file)
         IN IF HeaderCandidates(scores) # {}
            THEN LET best == BestHeaderRow(scores)
                 IN [df |-> CleanColumns(ReadExcel(file, best)), header_row |-> best]
            ELSE IF fallback # {}
            THEN LET h == FirstFallbackRow(fallback)
                 IN [df |-> CleanColumns(ReadExcel(file, h)), header_row |-> h]
            ELSE [df |-> NoneTable, header_row |-> 0 - 1]

(***************************************************************************)
(* Column Resolver (main.py parse_excel_data, lines 221-295)               *)
(***************************************************************************)
R_mode == <<"M","o","d","e"," ","o","f"," ","P","a","y","m","e","n","t">>
R_date == <<"P","a","y","m","e","n","t"," ","D","u","e"," ","[","D","a","t","e","]">>
required_columns == <<R_mode, R_date>>

K_payment   == <<"p","a","y","m","e","n","t">>
K_pay       == <<"p","a","y">>
K_mode      == <<"m","o","d","e">>
K_amount    == <<"a","m","o","u","n","t">>
K_due       == <<"d","u","e">>
K_reference == <<"r","e","f","e","r","e","n","c","e">>
K_related   == <<"r","e","l","a","t","e","d">>
K_date      == <<"d","a","t","e">>
K_transfer  == <<"t","r","a","n","s","f","e","r">>
K_created   == <<"c","r","e","a","t","e","d">>
K_create    == <<"c","r","e","a","t","e">>
K_cheque    == <<"c","h","e","q","u","e">>
K_check     == <<"c","h","e","c","k">>

\* the first column name, in table order, at which hit is TRUE; <<>> for None
FirstColumn(columns, hit) ==
    IF \E k \in 1..Len(columns) : hit[k]
    THEN columns[CHOOSE k \in 1..Len(columns) :
                    hit[k] /\ \A j \in 1..(k - 1) : ~hit[j]]
    ELSE <<>>

\* Strategy 1: exact match (case insensitive, whitespace normalized)
ExactMatch(req_col, df_col) == Collapse(Strip(Lower(df_col))) = Strip(Lower(req_col))

\* Strategy 2: contains all words (ignoring brackets)
WordMatch(req_col, df_col) ==
    AllWordsIn(Split(RemoveChars(Strip(Lower(req_col)), Brackets)),
               RemoveChars(Strip(Lower(df_col)), Brackets))

\* faulty variant: forgets the exclusion list of the payment-mode keywords
KeywordMatchNoExclude(req_col, df_col) ==
    LET c == Strip(Lower(df_col)) IN
    IF Lower(req_col) = T_mode
    THEN \E kw \in {K_payment, K_pay, K_mode} : Contains(c, kw)
    ELSE IF Lower(req_col) = T_date
    THEN \/ Contains(c, K_payment) /\ Contains(c, K_due) /\ Contains(c, K_date)
         \/ Contains(c, K_due) /\ Contains(c, K_date)
         \/ /\ Contains(c, K_payment) /\ Contains(c, K_date)
            /\ ~\E ex \in {K_transfer, K_created, K_create} : Contains(c, ex)
    ELSE FALSE

\* Strategy 3: keyword matching
KeywordMatch(req_col, df_col) ==
    LET c == Strip(Lower(df_col)) IN
    IF Lower(req_col) = T_mode
    THEN /\ \E kw \in {K_payment, K_pay, K_mode} : Contains(c, kw)
         /\ ~\E ex \in {K_amount, K_due, K_reference, K_related} : Contains(c, ex)
    ELSE IF Lower(req_col) = T_date
    THEN \/ Contains(c, K_payment) /\ Contains(c, K_due) /\ Contains(c, K_date)
         \/ Contains(c, K_due) /\ Contains(c, K_date)
         \/ /\ Contains(c, K_payment) /\ Contains(c, K_date)
            /\ ~\E ex \in {K_transfer, K_created, K_create} : Contains(c, ex)
    ELSE FALSE

\* found_col for one required column: the strategies in order, each over the
\* columns in table order; <<>> when none hits
FindColumn(req_col, columns) ==
    LET n  == Len(columns)
        s1 == FirstColumn(columns, [k \in 1..n |-> ExactMatch(req_col, columns[k])])
        s2 == FirstColumn(columns, [k \in 1..n |-> WordMatch(req_col, columns[k])])
        s3 == FirstColumn(columns, [k \in 1..n |-> KeywordMatch(req_col, columns[k])])
    IN IF s1 # <<>> THEN s1 ELSE IF s2 # <<>> THEN s2 ELSE s3

\* df.rename(columns=column_mapping) with column_mapping[req_col] = found_col:
\* rename maps a column whose name is a KEY of the mapping to its value
RenameColumns(columns, mode_col, date_col) ==
    [k \in 1..Len(columns) |->
        IF columns[k] = R_mode THEN mode_col
        ELSE IF columns[k] = R_date THEN date_col
        ELSE columns[k]]

\* df_work.dropna(subset=required_columns, how='all')
DropAllNa(df) ==
    FilterRows(df, [r \in 1..Len(df.rows) |->
                       ~(IsNa(df.rows[r][ColIndex(df, R_mode)])
                         /\ IsNa(df.rows[r][ColIndex(df, R_date)]))])

\* str.lower().str.contains('cheque|check')
IsCheque(s) == Contains(Lower(s), K_cheque) \/ Contains(Lower(s), K_check)

\* df[col] = df[col].astype(str)
AsStr(df, name) ==
    SetColumn(df, name, [r \in 1..Len(df.rows) |-> Txt(CellStr(Column(df, name)[r]))])

\* df[df[col].str.lower().str.contains('cheque|check', na=False)]
ChequeRows(df, name) ==
    FilterRows(df, [r \in 1..Len(df.rows) |->
                       IsCheque(CellStr(df.rows[r][ColIndex(df, name)]))])

(***************************************************************************)
(* Date Normalizer                                                         *)
(***************************************************************************)
\* whether a column already holds datetimes (dtype datetime64)
IsDatetimeColumn(cells) ==
    cells # <<>> /\ \A r \in 1..Len(cells) : cells[r].t \in {"dt", "nat"}

ParseCell(c, fmt) ==
    IF c.t # "s" THEN NaT
    ELSE LET d == Strptime(c.s, fmt) IN IF d # NoDate THEN Dt(d) ELSE NaT

\* pd.to_datetime(cells, format=fmt, errors='coerce'); a datetime column is
\* returned as it is
ToDatetime(cells, fmt) ==
    IF IsDatetimeColumn(cells) THEN cells
    ELSE [r \in 1..Len(cells) |-> ParseCell(cells[r], fmt)] \o <<>>

\* temp_dates.notna().sum()
ValidCount(cells) == Cardinality({r \in 1..Len(cells) : cells[r].t = "dt"})

\* the format the permissive parser reads a text as: month first unless the
\* first number cannot be a month, year first when it has four digits
GuessFormat(s) ==
    LET seps == {sep \in {"-", "/", ".", " "} : Len(SplitOn(s, sep)) = 3} IN
    IF seps = {} THEN Fmt("-", "d", "m", "Y")
    ELSE LET sep == CHOOSE x \in seps : TRUE
             fs  == SplitOn(s, sep)
             yd  == IF Len(fs[3]) = 4 THEN "Y" ELSE "y"
         IN IF FieldValue("b", fs[2]) > 0 THEN Fmt(sep, "d", "b", yd)
            ELSE IF Len(fs[1]) = 4 THEN Fmt(sep, "Y", "m", "d")
            ELSE IF FieldValue("m", fs[1]) > 0 THEN Fmt(sep, "m", "d", yd)
            ELSE Fmt(sep, "d", "m", yd)

\* pd.to_datetime(cells, errors='coerce') without a format.  infer = TRUE: the
\* format is guessed from the first text and applied to every cell (pandas 2);
\* infer = FALSE: every cell is parsed on its own (pandas 1)
ToDatetimeAuto(cells, infer) ==
    IF IsDatetimeColumn(cells) THEN cells
    ELSE LET texts == {r \in 1..Len(cells) : cells[r].t = "s"}
             first == IF texts = {} THEN 0
                      ELSE CHOOSE r \in texts : \A q \in texts : r <= q
             whole == infer /\ first > 0
                      /\ Strptime(cells[first].s, GuessFormat(cells[first].s)) # NoDate
         IN [r \in 1..Len(cells) |->
                IF cells[r].t # "s" THEN NaT
                ELSE IF whole THEN ParseCell(cells[r], GuessFormat(cells[first].s))
                ELSE ParseCell(cells[r], GuessFormat(cells[r].s))] \o <<>>

\* df.dropna(subset=[name])
DropNa(df, name) ==
    FilterRows(df, [r \in 1..Len(df.rows) |-> ~IsNa(df.rows[r][ColIndex(df, name)])])

(***************************************************************************)
(* Reminder Selector (find_reminders_needed)                               *)
(***************************************************************************)
ReminderDays == 3   \* timedelta(days=3)

\* faulty variant: compares with today instead of today + 3
target_date_today(now) == now
target_date(now) == AddDays(now, ReminderDays)

\* df[df['Payment Due [Date]'].dt.date == target_date]
DueRows(df, now) ==
    FilterRows(df, [r \in 1..Len(df.rows) |->
                       LET c == df.rows[r][ColIndex(df, R_date)]
                       IN c.t = "dt" /\ c.d = target_date(now)])

\* .dt raises unless the column holds datetimes
DtAccessorFails(df) ==
    ~HasColumn(df, R_date) \/ ~IsDatetimeColumn(Column(df, R_date))

(***************************************************************************)
(* parse_excel_data of main.py, one action per stage                       *)
(***************************************************************************)
\* the locals of parse_excel_data before it runs
PxInit == [df |-> NoneTable, header_row |-> 0, mode_col |-> <<>>, date_col |-> <<>>,
           df_work |-> NoneTable, cheque_df |-> NoneTable, k |-> 1,
           parsed_dates |-> 0, auto |-> FALSE]

\* lines 212-216: the Header Locator, and None when it found no header
FindHeader ==
    /\ pc = "parse"
    /\ impl = "main"
    /\ \E h \in {find_header_row_and_columns(excel_file)} :
         /\ px' = [px EXCEPT !.df = h.df, !.header_row = h.header_row]
         /\ IF h.df.none
            THEN parsed' = NoneTable /\ pc' = "parsed"
            ELSE pc' = "resolve" /\ UNCHANGED parsed
    /\ UNCHANGED <<env, urls_to_try, attempt, response, gets, excel_file, reminders,
                   mail, result>>

\* lines 221-285: the loop over required_columns; the first one that is not
\* found ends the parse with None
ResolveColumns ==
    /\ pc = "resolve"
    /\ \E mode_col \in {FindColumn(R_mode, px.df.columns)} :
       \E date_col \in {IF mode_col = <<>> THEN <<>>
                         ELSE FindColumn(R_date, px.df.columns)} :
          /\ px' = [px EXCEPT !.mode_col = mode_col, !.date_col = date_col]
          /\ IF mode_col = <<>> \/ date_col = <<>>
             THEN parsed' = NoneTable /\ pc' = "parsed"
             ELSE pc' = "rename" /\ UNCHANGED parsed
    /\ UNCHANGED <<env, urls_to_try, attempt, response, gets, excel_file, reminders,
                   mail, result>>

\* lines 287-300: rename, the check that both logical names are columns, and
\* the removal of the rows empty in both
Rename ==
    /\ pc = "rename"
    /\ \E df_work \in {[px.df EXCEPT !.columns =
                          RenameColumns(px.df.columns, px.mode_col, px.date_col)]} :
          IF ~HasColumn(df_work, R_mode) \/ ~HasColumn(df_work, R_date)
          THEN /\ px' = [px EXCEPT !.df_work = df_work]
               /\ parsed' = NoneTable
               /\ pc' = "parsed"
          ELSE /\ px' = [px EXCEPT !.df_work = DropAllNa(df_work)]
               /\ pc' = "filter"
               /\ UNCHANGED parsed
    /\ UNCHANGED <<env, urls_to_try, attempt, response, gets, excel_file, reminders,
                   mail, result>>

\* lines 302-315: the cheque filter; pd.DataFrame() when no row is a cheque
FilterCheque ==
    /\ pc = "filter"
    /\ \E df_work \in {AsStr(px.df_work, R_mode)} :
       \E cheque_df \in {ChequeRows(df_work, R_mode)} :
          /\ px' = [px EXCEPT !.df_work = df_work, !.cheque_df = cheque_df,
                              !.k = 1, !.parsed_dates = 0]
          /\ IF IsEmpty(cheque_df)
             THEN parsed' = EmptyFrame /\ pc' = "parsed"
             ELSE pc' = "dates" /\ UNCHANGED parsed
    /\ UNCHANGED <<env, urls_to_try, attempt, response, gets, excel_file, reminders,
                   mail, result>>

\* valid_count > parsed_dates
Improves(valid_count, parsed_dates) == valid_count > parsed_dates

\* lines 332-351: one iteration of the loop over date_formats
TryDateFormat ==
    /\ pc = "dates"
    /\ \E temp_dates \in {ToDatetime(Column(px.cheque_df, R_date),
                                        date_formats[px.k])} :
       LET valid_count == ValidCount(temp_dates)
           better      == Improves(valid_count, px.parsed_dates)
           full        == better /\ valid_count = Len(px.cheque_df.rows)
       IN /\ px' = [px EXCEPT
                      !.cheque_df = IF better
                                    THEN SetColumn(px.cheque_df, R_date, temp_dates)
                                    ELSE @,
                      !.parsed_dates = IF better THEN valid_count ELSE @,
                      !.k = IF full THEN @ ELSE @ + 1]
          /\ pc' = IF full \/ px.k = Len(date_formats) THEN "auto" ELSE "dates"
    /\ UNCHANGED <<env, urls_to_try, attempt, response, gets, excel_file, parsed,
                   reminders, mail, result>>

\* parsed_dates < len(cheque_df) * 0.5
NeedsAuto(parsed_dates, n) == 2 * parsed_dates < n

\* lines 353-362: the automatic parse when no format parsed half of the rows
AutoParse ==
    /\ pc = "auto"
    /\ IF NeedsAuto(px.parsed_dates, Len(px.cheque_df.rows))
       THEN \E infer \in BOOLEAN :
               px' = [px EXCEPT
                        !.cheque_df = SetColumn(px.cheque_df, R_date,
                            ToDatetimeAuto(Column(px.cheque_df, R_date), infer)),
                        !.auto = TRUE]
       ELSE UNCHANGED px
    /\ pc' = "dropna"
    /\ UNCHANGED <<env, urls_to_try, attempt, response, gets, excel_file, parsed,
                   reminders, mail, result>>

\* lines 364-381: the rows without a date are removed; cheque_df is returned
DropInvalid ==
    /\ pc = "dropna"
    /\ px' = [px EXCEPT !.cheque_df = DropNa(px.cheque_df, R_date)]
    /\ parsed' = px'.cheque_df
    /\ pc' = "parsed"
    /\ UNCHANGED <<env, urls_to_try, attempt, response, gets, excel_file, reminders,
                   mail, result>>

(***************************************************************************)
(* parse_excel_data of api/reminder.py: the loop over header rows          *)
(***************************************************************************)
ApiHeaderRows == 5   \* range(5)

\* 'payment' in col_lower and 'mode' in col_lower, or 'mode' and 'pay'
ApiPaymentMatch(col) ==
    \/ Contains(Lower(col), K_payment) /\ Contains(Lower(col), K_mode)
    \/ Contains(Lower(col), K_mode) /\ Contains(Lower(col), K_pay)

\* 'due' in col_lower and 'date' in col_lower (the elif adds nothing)
ApiDateMatch(col) ==
    \/ Contains(Lower(col), K_due) /\ Contains(Lower(col), K_date)
    \/ Contains(Lower(col), K_payment) /\ Contains(Lower(col), K_date)
       /\ Contains(Lower(col), K_due)

\* what one iteration makes of header row h:
\*   [next: TRUE to go on with the next row, df, payment_col, date_col, out]
ApiIteration(file, h, infer) ==
    IF ReadFails(file, h)
    THEN [next |-> TRUE, df |-> NoneTable, payment_col |-> <<>>, date_col |-> <<>>,
          out |-> NoneTable]
    ELSE LET raw == ReadExcel(file, h)
             df  == [raw EXCEPT !.columns = [k \in 1..Len(raw.columns) |->
                                                Strip(raw.columns[k])]]
             payment_col == FirstColumn(df.columns,
                                [k \in 1..Len(df.columns) |-> ApiPaymentMatch(df.columns[k])])
             date_col    == FirstColumn(df.columns,
                                [k \in 1..Len(df.columns) |-> ApiDateMatch(df.columns[k])])
             skip == [next |-> TRUE, df |-> df, payment_col |-> <<>>,
                      date_col |-> <<>>, out |-> NoneTable]
         IN IF IsEmpty(raw) THEN [skip EXCEPT !.df = NoneTable]
            ELSE IF payment_col = <<>> \/ date_col = <<>>
            THEN [skip EXCEPT !.payment_col = payment_col, !.date_col = date_col]
            ELSE LET found == [skip EXCEPT !.payment_col = payment_col,
                                           !.date_col = date_col]
                     df_filtered == ChequeRows(df, payment_col)
                 IN IF IsEmpty(df_filtered)
                    THEN [found EXCEPT !.next = FALSE, !.out = EmptyFrame]
                    ELSE LET dated == DropNa(
                                 SetColumn(df_filtered, date_col,
                                     ToDatetimeAuto(Column(df_filtered, date_col), infer)),
                                 date_col)
                             sel1 == IF Contains(Lower(payment_col), K_mode)
                                     THEN R_mode ELSE payment_col
                             sel2 == IF Contains(Lower(date_col), K_due)
                                     THEN R_date ELSE date_col
                         IN IF ~HasColumn(dated, sel1) \/ ~HasColumn(dated, sel2)
                            THEN found   \* KeyError, caught: the next header row
                            ELSE [found EXCEPT
                                    !.next = FALSE,
                                    !.out = Frame(<<R_mode, R_date>>,
                                        [r \in 1..Len(dated.rows) |->
                                            << dated.rows[r][ColIndex(dated, sel1)],
                                               dated.rows[r][ColIndex(dated, sel2)] >>])]

\* one iteration of `for header_row in range(5)`; None after the last one
ApiTryHeader ==
    /\ pc = "parse"
    /\ impl = "api"
    /\ \E infer \in BOOLEAN :
       \E it \in {ApiIteration(excel_file, px.header_row, infer)} :
         /\ px' = [px EXCEPT !.df = it.df, !.mode_col = it.payment_col,
                             !.date_col = it.date_col,
                             !.header_row = IF it.next THEN @ + 1 ELSE @]
         /\ IF ~it.next THEN parsed' = it.out /\ pc' = "parsed"
            ELSE IF px.header_row + 1 >= ApiHeaderRows
            THEN parsed' = NoneTable /\ pc' = "parsed"
            ELSE UNCHANGED <<parsed, pc>>
    /\ UNCHANGED <<env, urls_to_try, attempt, response, gets, excel_file, reminders,
                   mail, result>>

(***************************************************************************)
(* Mail and the Run Orchestrator (run_reminder_check, main)                *)
(***************************************************************************)
\* the addresses the run mails: main() drops the empty entries of the
\* comma-separated string, send_email of api/reminder.py keeps them
RecipientList(im, raw) ==
    LET parts == SplitOn(raw, ",")
        all   == [k \in 1..Len(parts) |-> Strip(parts[k])]
    IN IF im = "main" THEN SelectSeq(all, LAMBDA e : e # <<>>) ELSE all

\* whether the configuration check lets the run start
ConfigMissing(im, u, raw, cr) ==
    IF im = "main"
    THEN \/ RecipientList(im, raw) = <<>>
         \/ u = <<>> \/ cr.smtp_server = <<>>
         \/ cr.email_username = <<>> \/ cr.email_password = <<>>
    ELSE \/ u = <<>> \/ raw = <<>>
         \/ cr.email_username = <<>> \/ cr.email_password = <<>>

NoMail == [list |-> <<>>, r |-> 1, success_count |-> 0, log |-> <<>>]

\* what the run returns.  run_reminder_check of main.py returns the flag alone;
\* for it emails_sent and reminders_found are the counts the run logged
NoResult == [returned |-> FALSE, success |-> FALSE, error |-> "",
             emails_sent |-> 0, reminders_found |-> 0]
Result(success, error, emails_sent, reminders_found) ==
    [returned |-> TRUE, success |-> success, error |-> error,
     emails_sent |-> emails_sent, reminders_found |-> reminders_found]

\* main() lines 537-557, run_reminder_check of api/reminder.py lines 288-302
ValidateConfig ==
    /\ pc = "run"
    /\ IF ConfigMissing(impl, url, recipients, creds)
       THEN result' = Result(FALSE, "config", 0, 0) /\ pc' = "done"
       ELSE pc' = "download" /\ UNCHANGED result
    /\ UNCHANGED <<env, urls_to_try, attempt, response, gets, excel_file, px, parsed,
                   reminders, mail>>

\* faulty variant: takes whatever the download returned for a workbook
DownloadFailed_Never(file) == FALSE

\* `if not excel_file`
DownloadFailed(file) == file = NoFile

\* run_reminder_check after download_excel_file returned: the failure result,
\* or on to the parse (the locals of the download loop are gone by then)
CheckDownload ==
    /\ pc = "downloaded"
    /\ IF DownloadFailed(excel_file)
       THEN /\ result' = Result(FALSE, "download", 0, 0)
            /\ pc' = "done"
            /\ UNCHANGED <<px, attempt, response, gets>>
       ELSE /\ pc' = "parse"
            /\ px' = PxInit
            /\ attempt' = 0
            /\ response' = NoResponse
            /\ gets' = <<>>
            /\ UNCHANGED result
    /\ UNCHANGED <<env, urls_to_try, excel_file, parsed, reminders, mail>>

\* `if df is None`
CheckParsed ==
    /\ pc = "parsed"
    /\ IF parsed.none
       THEN result' = Result(FALSE, "parse", 0, 0) /\ pc' = "done"
       ELSE pc' = "find" /\ UNCHANGED result
    /\ UNCHANGED <<env, urls_to_try, attempt, response, gets, excel_file, px, parsed,
                   reminders, mail>>

\* find_reminders_needed.  Where the date column holds no datetimes the .dt
\* accessor raises: api/reminder.py turns that into a failed result
FindReminders ==
    /\ pc = "find"
    /\ IF IsEmpty(parsed)
       THEN reminders' = EmptyFrame /\ pc' = "remind" /\ UNCHANGED result
       ELSE IF DtAccessorFails(parsed)
       THEN /\ result' = [Result(FALSE, "unexpected", 0, 0) EXCEPT
                             !.returned = (impl = "api")]
            /\ pc' = "done"
            /\ UNCHANGED reminders
       ELSE reminders' = DueRows(parsed, today) /\ pc' = "remind" /\ UNCHANGED result
    /\ UNCHANGED <<env, urls_to_try, attempt, response, gets, excel_file, px, parsed, mail>>

\* `if not reminders.empty`: mail them, else the run is done and successful
Dispatch ==
    /\ pc = "remind"
    /\ IF ~IsEmpty(reminders)
       THEN /\ mail' = [NoMail EXCEPT !.list = RecipientList(impl, recipients)]
            /\ pc' = "send"
            /\ UNCHANGED result
       ELSE /\ result' = Result(TRUE, "", 0, Len(reminders.rows))
            /\ pc' = "done"
            /\ UNCHANGED mail
    /\ UNCHANGED <<env, urls_to_try, attempt, response, gets, excel_file, px, parsed,
                   reminders>>

\* faulty variant: a failed delivery ends the loop (n: the recipients)
NextRecipient_StopOnFailure(r, ok, n) == IF ok THEN r + 1 ELSE n + 1

\* the iteration after a delivery: the except clause falls through to the
\* next recipient
NextRecipient(r, ok, n) == r + 1

\* one iteration of the loop over the recipients: the mail sender delivers
\* (ok) or raises, which the loop catches
SendOne ==
    /\ pc = "send"
    /\ mail.r <= Len(mail.list)
    /\ \E ok \in BOOLEAN :
         mail' = [mail EXCEPT
                    !.r = NextRecipient(@, ok, Len(mail.list)),
                    !.success_count = IF ok THEN @ + 1 ELSE @,
                    !.log = Append(@, [to |-> mail.list[mail.r], ok |-> ok])]
    /\ UNCHANGED <<env, pc, urls_to_try, attempt, response, gets, excel_file, px, parsed,
                   reminders, result>>

\* faulty variant: reports success whatever the deliveries did
SendSucceeded_Always(success_count) == TRUE

\* success_count > 0
SendSucceeded(success_count) == success_count > 0

\* the end of the loop: send_email_reminder lines 497-502 and
\* run_reminder_check; api/reminder.py lines 256 and 331-347
FinishSend ==
    /\ pc = "send"
    /\ mail.r > Len(mail.list)
    /\ result' = IF SendSucceeded(mail.success_count)
                 THEN Result(TRUE, "", mail.success_count, Len(reminders.rows))
                 ELSE Result(FALSE, "send", 0, Len(reminders.rows))
    /\ pc' = "done"
    /\ UNCHANGED <<env, urls_to_try, attempt, response, gets, excel_file, px, parsed,
                   reminders, mail>>

(***************************************************************************)
(* Inputs: the bounded sets the specifications draw from                   *)
(***************************************************************************)
MaxCols     == 3   \* widest header of the column-name sheets
MaxDateRows == 3   \* most data rows of the mixed-date sheets
MaxRows     == 2   \* most data rows of the uniformly formatted sheets
MaxHeaderRows == 3 \* most header-like rows of the header sheets

N_MODE_UPPER == <<"M","O","D","E"," ","O","F"," ","P","A","Y","M","E","N","T">>
N_PayMode    == <<"P","a","y"," ","M","o","d","e">>
N_AmountMode == <<"A","m","o","u","n","t"," ","M","o","d","e">>
N_DueDate    == <<"D","u","e"," ","D","a","t","e">>
N_SNo        == <<"S",".","N","o">>
N_Amount     == <<"A","m","o","u","n","t">>
M_Cheque     == <<"C","h","e","q","u","e">>
M_CHECK      == <<"C","H","E","C","K">>
M_NEFT       == <<"N","E","F","T">>
V_1000       == <<"1","0","0","0">>
V_Title      == <<"P","a","y","m","e","n","t","s">>
V_na         == <<"n","/","a">>
V_22Feb2025  == <<"2","2"," ","F","e","b"," ","2","0","2","5">>

ModeNames   == {R_mode, N_MODE_UPPER, N_PayMode, N_AmountMode}
DateNames   == {R_date, N_DueDate}
ColumnNames == ModeNames \cup DateNames

Todays == {<<2025, 2, 10>>, <<2025, 2, 27>>}

\* an .xlsx workbook: its first sheet as a grid of cells; fmt is the number, in
\* date_formats, of the format the sheet's author writes dates in (0: none)
Book(grid, fmt) == [valid |-> TRUE, grid |-> grid, fmt |-> fmt]

\* the bytes of a workbook
S_PK34 == <<"P","K","3","4">>
File(book) == [head |-> S_PK34, len |-> 5000, book |-> book]

\* the first row of a sheet that has a title above its header
TitleRow(width) == [k \in 1..width |-> IF k = 1 THEN Txt(V_Title) ELSE NaN]

\* sheets whose header is a choice of column names, with rows (Cheque, t+3)
\* and (NEFT, t+3) under it, the dates written as %d-%b-%y
NameSheets(t) ==
    LET headers == UNION {{h \in [1..n -> ColumnNames] :
                              \A i, j \in 1..n : i # j => h[i] # h[j]} :
                          n \in 2..MaxCols}
        cell(name, mode) ==
            IF name \in ModeNames THEN Txt(mode)
            ELSE Txt(Strftime(AddDays(t, 3), date_formats[1]))
        body(h) == << [k \in 1..Len(h) |-> Txt(h[k])],
                      [k \in 1..Len(h) |-> cell(h[k], M_Cheque)],
                      [k \in 1..Len(h) |-> cell(h[k], M_NEFT)] >>
    IN {Book(body(h), 1) : h \in headers}
       \cup {Book(<<TitleRow(Len(h))>> \o body(h), 1) : h \in headers}

LiteralHeader == <<Txt(N_SNo), Txt(R_mode), Txt(N_Amount), Txt(R_date)>>

N_ModeOfPayments == <<"M","o","d","e"," ","o","f"," ","P","a","y","m","e","n","t","s">>

\* rows a header may be looked for in: both labels (score 4), one label
\* (score 2), a name that holds the words of a label (score 1), filler (0)
H_full  == <<Txt(R_mode), Txt(R_date)>>
H_mode  == <<Txt(R_mode), Txt(N_Amount)>>
H_words == <<Txt(N_ModeOfPayments), Txt(N_Amount)>>
H_fill  == <<Txt(N_SNo), Txt(N_Amount)>>
HeaderRowKinds == {H_full, H_mode, H_words, H_fill}

\* sheets of 0 or 5 filler rows, then up to MaxHeaderRows rows of these
\* kinds, then the row (Cheque, t+3)
HeaderSheets(t) ==
    LET data == <<Txt(M_Cheque), Txt(Strftime(AddDays(t, 3), date_formats[1]))>>
    IN {Book([k \in 1..n |-> H_fill] \o rows \o <<data>>, 1) :
           n \in {0, 5},
           rows \in UNION {[1..m -> HeaderRowKinds] : m \in 1..MaxHeaderRows}}

\* texts of a due-date column that mixes formats
DateTexts ==
    { Strftime(<<2025, 2, 22>>, date_formats[1]),    \* 22-Feb-25
      Strftime(<<2025, 2, 22>>, date_formats[4]),    \* 22/02/2025
      Strftime(<<2025, 2, 22>>, date_formats[6]),    \* 02/22/2025
      Strftime(<<2025, 2, 3>>, date_formats[6]),     \* 02/03/2025
      V_22Feb2025, V_na }

\* sheets with the literal header in row 1 and cheque rows whose dates mix formats
MixedDateSheets ==
    LET cols == UNION {[1..n -> DateTexts] : n \in 1..MaxDateRows}
        row(i, text) == <<Txt(IntStr(i)), Txt(M_Cheque), Txt(V_1000), Txt(text)>>
    IN {Book(<<TitleRow(4), LiteralHeader>> \o [i \in 1..Len(c) |-> row(i, c[i])], 0) :
           c \in cols}

\* a data row: the payment mode and the days from today to the due date
RowKinds == {<<M_Cheque, 2>>, <<M_Cheque, 3>>, <<M_Cheque, 4>>,
             <<M_CHECK, 3>>, <<M_NEFT, 3>>}

AuthorFormats == {1, 4, 6}   \* %d-%b-%y, %d/%m/%Y, %m/%d/%Y

UniformSheet(t, f, kinds) ==
    Book(<<TitleRow(4), LiteralHeader>>
         \o [i \in 1..Len(kinds) |->
                <<Txt(IntStr(i)), Txt(kinds[i][1]), Txt(V_1000),
                  Txt(Strftime(AddDays(t, kinds[i][2]), date_formats[f]))>>],
         f)

\* the sheet of the end-to-end scenario
ScenarioKinds == << <<M_Cheque, 3>>, <<M_NEFT, 3>>, <<M_Cheque, 5>> >>

\* sheets with the literal header in row 1 whose dates are all written in
\* the author's format
UniformSheets(t) ==
    {UniformSheet(t, f, kinds) :
        f \in AuthorFormats,
        kinds \in UNION {[1..n -> RowKinds] : n \in 1..MaxRows} \cup {ScenarioKinds}}

\* sheets the parse gives up on: no row, no header, a required column missing
BrokenSheets ==
    { NoBook,
      Book(<<>>, 0),
      Book(<< <<Txt(N_SNo), Txt(N_Amount)>>, <<Txt(V_1000), Txt(V_1000)>> >>, 0),
      Book(<< <<Txt(R_mode), Txt(N_Amount)>>, <<Txt(M_Cheque), Txt(V_1000)>> >>, 0) }

N_PaymentDate    == <<"P","a","y","m","e","n","t"," ","D","a","t","e">>
N_PayModeDueDate == <<"P","a","y"," ","M","o","d","e"," ","D","u","e"," ","D","a","t","e">>

\* sheets without a header to find (no row, one row), and sheets whose
\* header has one column name that speaks of the payment and of a date
BareSheets(t) ==
    LET due == Txt(Strftime(AddDays(t, 3), date_formats[1]))
    IN { Book(<<>>, 0),
         Book(<<H_fill>>, 0),
         Book(<< <<Txt(N_PaymentDate), Txt(N_Amount)>>, <<due, Txt(V_1000)>> >>, 1),
         Book(<< <<Txt(N_PayModeDueDate), Txt(N_Amount)>>, <<due, Txt(V_1000)>> >>, 1) }

\* shared links: host, link segment and query vary
U_sp    == <<"h","t","t","p","s",":","/","/","c",".","s","h","a","r","e","p","o","i","n","t",".","c","o","m">>
U_other == <<"h","t","t","p","s",":","/","/","x",".","i","o">>
U_file  == <<"f","/","b","o","o","k">>
U_e1    == <<"?","e","=","1">>
Urls ==
    {host \o seg \o U_file \o tail :
        host \in {U_sp, U_other},
        seg  \in {S_edit, S_view, <<"/">>},
        tail \in {<<>>, U_e1, S_q \o S_download1, U_e1 \o S_amp \o S_download1}}

CT_html    == <<"t","e","x","t","/","h","t","m","l">>
CT_HtmlCs  == <<"T","e","x","t","/","H","T","M","L",";"," ","c","h","a","r","s","e","t","=","u","t","f","-","8">>
CT_xls     == <<"a","p","p","l","i","c","a","t","i","o","n","/","v","n","d",".","m","s","-","e","x","c","e","l">>
CT_xlsx    == <<"a","p","p","l","i","c","a","t","i","o","n","/","v","n","d",".","o","p","e","n","x","m","l","f","o","r","m","a","t","s","-","o","f","f","i","c","e","d","o","c","u","m","e","n","t",".","s","p","r","e","a","d","s","h","e","e","t","m","l",".","s","h","e","e","t">>
CT_plain   == <<"t","e","x","t","/","p","l","a","i","n">>
ContentTypes == {CT_html, CT_HtmlCs, CT_xls, CT_xlsx, S_octet, CT_plain, <<>>}

B_DOCTYPE == <<"<","!","D","O","C","T","Y","P","E"," ","h","t","m","l",">">>
B_doctype == <<"<","!","d","o","c","t","y","p","e"," ","h","t","m","l",">">>
B_junk    == <<"j","u","n","k">>
HtmlPage(head) == [head |-> head, len |-> 5000, book |-> NoBook]
SmallZip == [head |-> S_PK34, len |-> 500, book |-> NoBook]
Junk     == [head |-> B_junk, len |-> 5000, book |-> NoBook]

Response(content_type, content) ==
    [exc |-> FALSE, status_code |-> 200, content_type |-> content_type,
     content |-> content]
Raises   == [NoResponse EXCEPT !.exc = TRUE]
NotFound == [NoResponse EXCEPT !.status_code = 404]

\* every outcome of a GET that the fetcher tells apart
FullServer(file) ==
    {Raises, NotFound}
    \cup {Response(ct, c) :
             ct \in ContentTypes,
             c \in {HtmlPage(B_DOCTYPE), HtmlPage(B_doctype), SmallZip, Junk, file}}

\* the outcomes of a host that serves the workbook or a sign-in page
BasicServer(file) ==
    {Raises, NotFound, Response(CT_html, HtmlPage(B_DOCTYPE)), Response(CT_xlsx, file)}

A_one   == <<"a","@","x",".","i","o">>
A_two   == <<"a","@","x",".","i","o",","," ","b","@","y",".","i","o">>
A_gap   == <<"a","@","x",".","i","o",",",",","b","@","y",".","i","o">>
A_comma == <<",">>
C_host  == <<"s","m","t","p",".","x",".","i","o">>
C_user  == <<"u","s","e","r">>
C_pass  == <<"p","w">>
GoodCreds == [smtp_server |-> C_host, email_username |-> C_user,
              email_password |-> C_pass]
U_good == U_sp \o S_edit \o U_file \o U_e1
\* a view link that asks for the download already: two candidates
U_direct == U_sp \o S_view \o U_file \o S_q \o S_download1

\* the state every specification starts from, but for env and pc
Idle ==
    /\ urls_to_try = <<>> /\ attempt = 0 /\ response = NoResponse /\ gets = <<>>
    /\ excel_file = NoFile /\ px = PxInit /\ parsed = NoneTable
    /\ reminders = EmptyFrame /\ mail = NoMail /\ result = NoResult

(***************************************************************************)
(* SpecFetch: the Link Resolver and the Fetcher on every link and outcome  *)
(***************************************************************************)
InitFetch ==
    /\ impl \in {"main", "api"}
    /\ url \in Urls
    /\ recipients = A_one /\ creds = GoodCreds
    /\ today = <<2025, 2, 10>>
    /\ server = FullServer(File(UniformSheet(today, 1, ScenarioKinds)))
    /\ pc = "download"
    /\ Idle

NextFetch == BuildUrls \/ Request \/ DownloadFail

SpecFetch == InitFetch /\ [][NextFetch]_vars

(***************************************************************************)
(* SpecParse: header, columns, cheque filter, dates and selector on sheets *)
(***************************************************************************)
InitParse ==
    /\ impl \in {"main", "api"}
    /\ url = U_good /\ recipients = A_one /\ creds = GoodCreds
    /\ today \in Todays
    /\ server = {NotFound}
    /\ \E book \in UniformSheets(today)
                  \cup (IF today = <<2025, 2, 10>>
                        THEN NameSheets(today) \cup MixedDateSheets
                             \cup HeaderSheets(today) \cup BareSheets(today)
                        ELSE {}) :
         excel_file = File(book)
    /\ pc = "parse"
    /\ urls_to_try = <<>> /\ attempt = 0 /\ response = NoResponse /\ gets = <<>>
    /\ px = PxInit /\ parsed = NoneTable
    /\ reminders = EmptyFrame /\ mail = NoMail /\ result = NoResult

NextParse ==
    \/ FindHeader \/ ResolveColumns \/ Rename \/ FilterCheque
    \/ TryDateFormat \/ AutoParse \/ DropInvalid
    \/ ApiTryHeader
    \/ CheckParsed \/ FindReminders

SpecParse == InitParse /\ [][NextParse]_vars

(***************************************************************************)
(* Spec: the whole run, from the configuration check to the result         *)
(***************************************************************************)
Init ==
    /\ impl \in {"main", "api"}
    /\ today \in Todays
    /\ \/ /\ url = U_direct /\ recipients = A_two /\ creds = GoodCreds
          /\ \E book \in UniformSheets(today) \cup BrokenSheets :
                server = BasicServer(File(book))
       \/ /\ url \in {U_good, <<>>}
          /\ recipients \in {A_one, A_gap, A_comma, <<>>}
          /\ creds \in {GoodCreds, [GoodCreds EXCEPT !.email_password = <<>>]}
          /\ server = BasicServer(File(UniformSheet(today, 1, ScenarioKinds)))
    /\ pc = "run"
    /\ Idle

Next ==
    \/ ValidateConfig
    \/ BuildUrls \/ Request \/ DownloadFail \/ CheckDownload
    \/ FindHeader \/ ResolveColumns \/ Rename \/ FilterCheque
    \/ TryDateFormat \/ AutoParse \/ DropInvalid
    \/ ApiTryHeader
    \/ CheckParsed \/ FindReminders \/ Dispatch \/ SendOne \/ FinishSend

Spec == Init /\ [][Next]_vars

(***************************************************************************)
(* Properties                                                              *)
(***************************************************************************)
S_doctype_lower == Lower(S_DOCTYPE)

\* C5: the fetcher never returns, as the spreadsheet bytes, the body of a
\* response that begins with an HTML doctype marker in any letter case,
\* whatever the content-type of the response says.
C5_NeverAcceptsDoctype ==
    (pc = "downloaded" /\ excel_file # NoFile)
        => ~StartsWith(Lower(excel_file.head), S_doctype_lower)

\* C6: once the candidate list of a link that contains "sharepoint.com" and
\* the edit segment "/:x:/" is built, it holds a candidate with the view
\* segment "/:b:/" in place of the edit segment and a download=1 parameter;
\* and no candidate list holds the same string twice.
C6_ViewCandidateNoDuplicates ==
    pc = "get" =>
        /\ (Contains(url, S_sharepoint) /\ Contains(url, S_edit))
              => \E k \in 1..Len(urls_to_try) :
                    /\ Contains(urls_to_try[k], S_view)
                    /\ ~Contains(urls_to_try[k], S_edit)
                    /\ Contains(urls_to_try[k], S_download1)
        /\ \A i, j \in 1..Len(urls_to_try) :
              i # j => urls_to_try[i] # urls_to_try[j]

\* a SharePoint edit link whose four candidates held a duplicate
C6_Witness ==
    /\ pc = "get"
    /\ Contains(url, S_sharepoint) /\ Contains(url, S_edit)
    /\ Len(urls_to_try) = 3
    /\ \E k \in 1..3 : Contains(urls_to_try[k], S_view)

\* the column names after the two found columns are given the logical names
RenameToLogical(columns, mode_col, date_col) ==
    [k \in 1..Len(columns) |->
        IF columns[k] = mode_col THEN R_mode
        ELSE IF columns[k] = date_col THEN R_date
        ELSE columns[k]]

\* C1: whenever the Column Resolver found a real column for both logical
\* fields, the working table after the renaming has the two found columns
\* under the logical names and every other column under its own name, and the
\* parse goes on to the cheque filter: it neither returns None (main.py) nor
\* gives up on that header row (api/reminder.py).
C1_RenamedToLogicalNames ==
    (px.mode_col # <<>> /\ px.date_col # <<>>) =>
        IF impl = "main"
        THEN ~px.df_work.none =>
                /\ px.df_work.columns
                      = RenameToLogical(px.df.columns, px.mode_col, px.date_col)
                /\ ~(pc = "parsed" /\ parsed.none)
        ELSE pc # "parse" /\ ~parsed.none

\* the states in which the Column Resolver has run over the columns of px.df
Resolved ==
    /\ ~px.df.none
    /\ impl = "main" => pc \notin {"parse", "resolve"}

HasName(name) == \E k \in 1..Len(px.df.columns) : px.df.columns[k] = name

\* C2: a column named "Pay Mode" is resolved to the payment mode (when no
\* column carries the label itself), a column named "Due Date" to the due
\* date, and a column named "Amount Mode" is never resolved to the payment mode.
C2_PayModeDueDateNotAmountMode ==
    Resolved =>
        /\ px.mode_col # N_AmountMode
        /\ (HasName(N_PayMode) /\ ~HasName(R_mode) /\ ~HasName(N_MODE_UPPER))
              => px.mode_col = N_PayMode
        /\ (HasName(N_DueDate) /\ ~HasName(R_date)
              /\ (impl = "api" \/ px.mode_col # <<>>))
              => px.date_col = N_DueDate

\* "Amount Mode" stands before "Pay Mode" and is passed over
C2_Witness ==
    /\ Resolved /\ impl = "main"
    /\ px.df.columns = <<N_AmountMode, N_PayMode, N_DueDate>>
    /\ px.mode_col = N_PayMode /\ px.date_col = N_DueDate

\* the cheque rows as they enter the Date Normalizer
OriginalCheques == ChequeRows(px.df_work, R_mode)

\* how many of the cells each format of the list parses
CountsOf(cells) ==
    [f \in 1..Len(date_formats) |-> ValidCount(ToDatetime(cells, date_formats[f]))]
    \o <<>>

\* the earliest format of the list with the highest count
EarliestBest(counts) ==
    CHOOSE f \in 1..Len(counts) :
        \A g \in 1..Len(counts) :
            counts[g] < counts[f] \/ (counts[g] = counts[f] /\ f <= g)

\* the same for the original due-date values of the cheque rows
FormatCounts == CountsOf(Column(OriginalCheques, R_date))
BestFormat   == EarliestBest(FormatCounts)

\* C3: where some format of the list parses at least half of the original
\* due-date values, the table the Date Normalizer returns is the cheque rows
\* parsed with the earliest format that parses the most of them, without the
\* rows that format cannot parse.
C3_MajorityFormatKept ==
    (impl = "main" /\ pc = "parsed" /\ ~px.cheque_df.none /\ ~IsEmpty(px.cheque_df)
     /\ 2 * FormatCounts[BestFormat] >= Len(OriginalCheques.rows))
        => parsed = DropNa(SetColumn(OriginalCheques, R_date,
                              ToDatetime(Column(OriginalCheques, R_date),
                                         date_formats[BestFormat])),
                           R_date)

Delivered == Cardinality({k \in 1..Len(mail.log) : mail.log[k].ok})

\* C7: when the Reminder Selector returned at least one row, the run is
\* successful exactly when at least one delivery succeeded; a successful run
\* reports the number of successful deliveries as emails_sent, a run whose
\* deliveries all failed reports failure, and either way reminders_found is
\* the number of selected rows.
C7_SuccessIffOneDelivery ==
    (pc = "done" /\ Len(reminders.rows) > 0) =>
        /\ result.success <=> Delivered > 0
        /\ result.emails_sent = Delivered
        /\ result.emails_sent <= Len(mail.list)
        /\ result.reminders_found = Len(reminders.rows)

\* one of two deliveries failed: still a success, with emails_sent = 1
C7_Witness ==
    /\ pc = "done" /\ Len(reminders.rows) > 0
    /\ Len(mail.list) = 2 /\ Delivered = 1
    /\ result.success /\ result.emails_sent = 1

\* C8: a run whose candidates all failed, or whose header or column stage
\* failed, returns a result with success = false, emails_sent = 0 and
\* reminders_found = 0 that names the failed stage.
C8_StageFailureResult ==
    pc = "done" =>
        /\ (urls_to_try # <<>> /\ excel_file = NoFile)
              => result = Result(FALSE, "download", 0, 0)
        /\ (excel_file # NoFile /\ parsed.none)
              => result = Result(FALSE, "parse", 0, 0)

\* every candidate was tried and the last one answered 404
C8_Witness ==
    /\ pc = "done"
    /\ attempt = Len(urls_to_try) + 1 /\ response = NotFound
    /\ result = Result(FALSE, "download", 0, 0)

\* C9: when fetch and parse succeeded and the Reminder Selector returned no
\* row, the run is a success with reminders_found = 0 and emails_sent = 0.
C9_EmptySelectionSucceeds ==
    (pc = "done" /\ excel_file # NoFile /\ ~parsed.none /\ Len(reminders.rows) = 0)
        => result = Result(TRUE, "", 0, 0)

\* cheque rows with valid dates, none of them due in three days
C9_Witness ==
    /\ pc = "done" /\ Len(parsed.rows) > 0 /\ Len(reminders.rows) = 0
    /\ result = Result(TRUE, "", 0, 0)

\* the data rows of the fetched sheet (under the title and the header) that
\* are cheques due on today + 3, the dates read in the format they were
\* written in
ExpectedReminders ==
    LET grid == excel_file.book.grid
    IN Cardinality({r \in 3..Len(grid) :
          /\ IsCheque(grid[r][2].s)
          /\ Strptime(grid[r][4].s, date_formats[excel_file.book.fmt])
                = AddDays(today, 3)})

\* the due-date cells of the cheque rows of the fetched sheet
SheetChequeDates ==
    LET grid == excel_file.book.grid
        rows == SelectSeq([r \in 1..(Len(grid) - 2) |-> r + 2],
                          LAMBDA r : IsCheque(grid[r][2].s))
    IN [k \in 1..Len(rows) |-> grid[rows[k]][4]] \o <<>>

\* the sheets whose dates the format list reads as they were written: the
\* earliest format that parses the most of them is the one they are written in
ReadAsWritten ==
    /\ excel_file # NoFile
    /\ excel_file.book.fmt > 0
    /\ EarliestBest(CountsOf(SheetChequeDates)) = excel_file.book.fmt

\* C10: for a sheet with the literal labels in its header row, whose dates
\* the format list reads as they were written, the run finds as many
\* reminders as the sheet has cheque rows due on today + 3.
C10_EndToEndCount ==
    (pc = "done" /\ ReadAsWritten) => result.reminders_found = ExpectedReminders

\* C13: the fetcher returns the body of a response as the spreadsheet bytes
\* only if the body is longer than the minimum plausible size (1000 bytes):
\* a 200 response with a spreadsheet content-type or the PK magic bytes and
\* a shorter body is never accepted.
C13_RejectsSmallBodies ==
    (pc = "downloaded" /\ excel_file # NoFile) => excel_file.len > MinPlausibleSize

\* C14: an exception raised by the GET of one candidate does not end the
\* loop: while the loop runs, the GETs issued are those of the candidates
\* before the current one, in list order, whatever their outcome; a candidate
\* tried after one whose GET raised is accepted as usual; and the fetch
\* returns None only when every candidate has been tried.
C14_ExceptionDoesNotAbort ==
    /\ \A k \in 1..Len(gets) :
          k <= Len(urls_to_try) /\ gets[k].url = urls_to_try[k]
    /\ pc = "get" => Len(gets) = attempt - 1
    /\ (pc = "downloaded" /\ excel_file = NoFile)
          => /\ Len(gets) = Len(urls_to_try)
             /\ \A k \in 1..Len(gets) : ~gets[k].accepted
    /\ (pc = "downloaded" /\ excel_file # NoFile)
          => gets # <<>> /\ gets[Len(gets)].accepted

\* the first GET raised, the second candidate was tried and accepted
C14_Witness ==
    /\ pc = "downloaded" /\ excel_file # NoFile
    /\ Len(gets) = 2 /\ gets[1].exc /\ gets[2].accepted

\* a link with the host marker "sharepoint.com" and one of the two
\* sharing-mode segments
KnownPattern(u) ==
    Contains(u, S_sharepoint) /\ (Contains(u, S_edit) \/ Contains(u, S_view))

\* the two fallback variants of a link
FallbackVariants(u) ==
    { BeforeFirst(u, "?") \o S_q \o S_download1,
      u \o (IF Contains(u, S_q) THEN S_amp ELSE S_q) \o S_download1 }

\* C15 as stated: for a link that does not match the known pattern the list
\* of candidates to try is the original link alone.
C15_SoleCandidate ==
    (pc = "get" /\ ~KnownPattern(url)) => urls_to_try = <<url>>

\* C15 amended: for a link that does not match the known pattern the
\* transformed link is the original link, and the list of candidates is the
\* original link followed by nothing but its download=1 fallback variants.
C15_OriginalThenFallbacks ==
    (pc = "get" /\ ~KnownPattern(url)) =>
        /\ urls_to_try # <<>> /\ urls_to_try[1] = url
        /\ \A k \in 2..Len(urls_to_try) : urls_to_try[k] \in FallbackVariants(url)
        /\ \A v \in FallbackVariants(url) :
              \E k \in 1..Len(urls_to_try) : urls_to_try[k] = v

\* a link with the edit segment on another host: the original and two fallbacks
C15_Witness ==
    /\ pc = "get" /\ ~KnownPattern(url) /\ Contains(url, S_edit)
    /\ Len(urls_to_try) = 3 /\ urls_to_try[1] = url

\* C17: the GETs go to the candidates in list order, the original link
\* first, each candidate at most once, and no GET follows the one whose
\* response was accepted.
C17_RequestsInOrderOnce ==
    /\ Len(gets) <= Len(urls_to_try)
    /\ \A k \in 1..Len(gets) : gets[k].url = urls_to_try[k]
    /\ gets # <<>> => gets[1].url = url
    /\ \A i, j \in 1..Len(gets) : i # j => gets[i].url # gets[j].url
    /\ \A k \in 1..(Len(gets) - 1) : ~gets[k].accepted
    /\ (pc = "downloaded" /\ excel_file # NoFile)
          => Len(gets) = attempt /\ gets[attempt].accepted

\* the second of four candidates was accepted: two GETs and no more
C17_Witness ==
    /\ pc = "downloaded" /\ excel_file # NoFile
    /\ Len(urls_to_try) = 4 /\ Len(gets) = 2
    /\ gets[1].url = url /\ ~gets[1].accepted /\ gets[2].accepted

\* the states of main.py in which the Header Locator has just returned a table
Located == impl = "main" /\ pc = "resolve"

\* the zero-based rows of the fetched sheet that the scan looks at
ScannedRows ==
    {r \in 0..5 : r < Len(excel_file.book.grid) /\ r < SampleRows}

\* the total score of each of the first rows of the fetched sheet
SheetScores ==
    [k \in 1..Min(6, Len(excel_file.book.grid)) |->
        RowScore(excel_file.book.grid[k]).matches] \o <<>>

\* C11: when some row among the first 6 has a score above 0, the header row
\* is one of these rows, no scanned row has a higher score, and every scanned
\* row before it has a lower score.
C11_HighestScoreLowestIndex ==
    Located =>
        LET score == SheetScores IN
        (\E r \in ScannedRows : score[r + 1] > 0) =>
            /\ px.header_row \in ScannedRows
            /\ score[px.header_row + 1] > 0
            /\ \A q \in ScannedRows :
                  /\ score[q + 1] <= score[px.header_row + 1]
                  /\ q < px.header_row => score[q + 1] < score[px.header_row + 1]

\* row 0 scores 1, rows 1 and 2 both score 4: row 1 is the header
C11_Witness ==
    /\ Located /\ px.header_row = 1
    /\ Len(excel_file.book.grid) >= 3
    /\ SubSeq(SheetScores, 1, 3) = <<1, 4, 4>>

\* the one-based columns of row r whose cell is exactly this label
LabelCells(r, label) ==
    LET row == excel_file.book.grid[r + 1]
    IN {k \in 1..Len(row) : row[k] = Txt(label)}

\* a cell that matches neither label at any tier
IsFiller(c) ==
    \A t \in 1..2 :
        MatchTier(Collapse(Strip(Lower(CellStr(c)))), target_columns[t]) = 0

\* row r holds each label in exactly one cell and filler in the others, and
\* every other scanned row holds filler only
LabelsOnlyInRow(r) ==
    LET grid == excel_file.book.grid IN
    /\ r \in ScannedRows
    /\ Cardinality(LabelCells(r, R_mode)) = 1
    /\ Cardinality(LabelCells(r, R_date)) = 1
    /\ \A k \in 1..Len(grid[r + 1]) :
          k \in LabelCells(r, R_mode) \cup LabelCells(r, R_date)
             \/ IsFiller(grid[r + 1][k])
    /\ \A q \in ScannedRows \ {r} :
          \A k \in 1..Len(grid[q + 1]) : IsFiller(grid[q + 1][k])

\* C12: when a scanned row r holds the cells "Mode of Payment" and
\* "Payment Due [Date]" among filler cells and every other scanned row holds
\* filler only, row r is the header row, the position recorded for each label
\* is the column of its cell, and the table read has the two labels as the
\* names of these columns.
C12_LabelRowSelected ==
    Located =>
        \A r \in ScannedRows :
            (Cardinality(LabelCells(r, R_mode)) = 1 /\ LabelsOnlyInRow(r)) =>
                LET column_positions == RowScore(excel_file.book.grid[r + 1]).pos IN
                /\ px.header_row = r
                /\ \A k \in LabelCells(r, R_mode) :
                      column_positions[1] = k /\ px.df.columns[k] = R_mode
                /\ \A k \in LabelCells(r, R_date) :
                      column_positions[2] = k /\ px.df.columns[k] = R_date

\* the stated case: two filler rows, the labels in row 2
C12_Witness ==
    /\ Located /\ px.header_row = 2
    /\ excel_file.book.grid[3] = H_full
    /\ LabelsOnlyInRow(2)

\* the non-empty entries of the configured comma-separated string, in order
ConfiguredRecipients ==
    LET parts == SplitOn(recipients, ",")
    IN SelectSeq([k \in 1..Len(parts) |-> Strip(parts[k])], LAMBDA e : e # <<>>)

\* C16: the mail sender is never invoked with an empty recipient address,
\* and when the deliveries are over their number is the number of non-empty
\* entries of the configured recipient string.
C16_EmptyEntriesDropped ==
    /\ \A k \in 1..Len(mail.log) : mail.log[k].to # <<>>
    /\ (pc = "done" /\ mail.log # <<>>)
          => Len(mail.log) = Len(ConfiguredRecipients)

\* C18: the mail sender has been invoked only if the fetch returned bytes,
\* a header was located, both columns were resolved and the Reminder Selector
\* returned at least one row; a run that ends after a failed stage or with no
\* selected row has invoked it not once.
C18_MailOnlyAfterSelection ==
    /\ (pc = "send" \/ mail.log # <<>>) =>
          /\ excel_file # NoFile
          /\ ~px.df.none
          /\ px.mode_col # <<>> /\ px.date_col # <<>>
          /\ ~parsed.none
          /\ Len(reminders.rows) > 0
    /\ (pc = "done" /\ result.error \in {"config", "download", "parse", "unexpected"})
          => mail.log = <<>>

\* both recipients were mailed after one cheque row was selected
C18_Witness ==
    /\ pc = "done" /\ Len(mail.log) = 2
    /\ Len(reminders.rows) = 1 /\ Len(parsed.rows) = 2

\* the sub-sequence of the non-empty addresses of the deliveries
MailedAddresses ==
    SelectSeq([k \in 1..Len(mail.log) |-> mail.log[k].to], LAMBDA e : e # <<>>)

\* C19: the deliveries go to the recipients of the list in list order, one
\* each; a failed delivery is followed by the deliveries to the remaining
\* recipients; when the run is over every configured recipient has been
\* mailed once, in the configured order, and the count of emails sent is the
\* number of deliveries that succeeded.
C19_OncePerRecipientInOrder ==
    /\ \A k \in 1..Len(mail.log) :
          k <= Len(mail.list) /\ mail.log[k].to = mail.list[k]
    /\ pc = "send" => Len(mail.log) = mail.r - 1
    /\ mail.success_count = Delivered
    /\ (pc = "done" /\ Len(reminders.rows) > 0) =>
          /\ Len(mail.log) = Len(mail.list)
          /\ MailedAddresses = ConfiguredRecipients
          /\ result.emails_sent = Delivered

\* the first delivery failed, the second recipient was mailed all the same
C19_Witness ==
    /\ pc = "done" /\ Len(mail.log) = 2
    /\ ~mail.log[1].ok /\ mail.log[2].ok
    /\ mail.log[1].to # mail.log[2].to
    /\ result.emails_sent = 1

\* the column the tiers give for a logical field: the leftmost exact match,
\* else the leftmost all-words match, else the leftmost keyword match
TierChoice(req_col, columns) ==
    LET n == Len(columns)
        hits(tier) ==
            {k \in 1..n :
                CASE tier = 1 -> ExactMatch(req_col, columns[k])
                  [] tier = 2 -> WordMatch(req_col, columns[k])
                  [] tier = 3 -> KeywordMatch(req_col, columns[k])}
        tiers == {t \in 1..3 : hits(t) # {}}
    IN IF tiers = {} THEN <<>>
       ELSE LET t == CHOOSE t \in tiers : \A u \in tiers : t <= u
            IN columns[CHOOSE k \in hits(t) : \A j \in hits(t) : k <= j]

\* C20: for each logical field the resolved column is the leftmost column
\* of the first tier (exact, all words, keyword) that any column matches: an
\* exact match wins over an earlier column that matches a later tier only.
C20_TierBeforePosition ==
    (Resolved /\ px.mode_col # <<>> /\ px.date_col # <<>>) =>
        /\ px.mode_col = TierChoice(R_mode, px.df.columns)
        /\ px.date_col = TierChoice(R_date, px.df.columns)

\* no scanned row of the fetched sheet scores above 0
NoCandidate ==
    \A r \in ScannedRows : RowScore(excel_file.book.grid[r + 1]).matches = 0

\* the rows among the first 5 that, read as the header, yield a table with
\* at least one row under it
YieldingRows ==
    {h \in 0..4 : h < Len(excel_file.book.grid)
                   /\ ~IsEmpty(ReadExcel(excel_file, h))}

\* C22: when no scanned row scores above 0, the header row is the first of
\* the first 5 rows that yields a non-empty table, and the table returned is
\* that one with its column names cleaned; the locator returns no table only
\* when no row scores and none of these rows yields a table, and then the
\* parse returns None and the run fails.
C22_FallbackFirstNonEmpty ==
    /\ (Located /\ NoCandidate) =>
          LET yielding == YieldingRows IN
          /\ yielding # {}
          /\ px.header_row \in yielding
          /\ \A q \in yielding : px.header_row <= q
          /\ px.df = CleanColumns(ReadExcel(excel_file, px.header_row))
    /\ (impl = "main" /\ pc \in {"parsed", "find", "done"} /\ px.df.none) =>
          /\ NoCandidate /\ YieldingRows = {}
          /\ parsed.none /\ pc # "find"
          /\ pc = "done" => result = Result(FALSE, "parse", 0, 0)

\* no row scores, three rows yield a table: the first is the header
C22_Witness ==
    /\ Located /\ NoCandidate
    /\ Cardinality(YieldingRows) >= 3 /\ px.header_row = 0

\* the states in which the Date Normalizer of main.py has returned its table
Normalized ==
    /\ impl = "main" /\ pc = "parsed"
    /\ ~px.cheque_df.none /\ Len(OriginalCheques.rows) > 0

\* whether the row of the cheque rows with this number is in the parsed table
\* (the first cell of a data row is its running number)
Retained(r) ==
    \E k \in 1..Len(parsed.rows) : parsed.rows[k][1] = OriginalCheques.rows[r][1]

\* C21: the automatic parse is attempted exactly when the explicit format
\* that parses the most of the original due-date values parses fewer than
\* half of them, and when it is attempted every cheque row whose original
\* value the automatic parse reads is in the table returned.
C21_AutoParseOnRawValues ==
    Normalized =>
        LET raw == Column(OriginalCheques, R_date) IN
        /\ px.auto <=> 2 * FormatCounts[BestFormat] < Len(raw)
        /\ px.auto =>
              \E infer \in BOOLEAN :
                 LET auto == ToDatetimeAuto(raw, infer) IN
                 \A r \in 1..Len(raw) : auto[r].t = "dt" => Retained(r)

\* C23: whenever both logical fields are resolved, the payment mode and the
\* due date are two different columns of the table.
C23_MappingInjective ==
    (Resolved /\ px.mode_col # <<>> /\ px.date_col # <<>>)
        => px.mode_col # px.date_col

\* a required configuration value is missing or empty: the link, the mail
\* user name, the mail password, or a recipient list without an address
ConfigIncomplete ==
    \/ url = <<>>
    \/ creds.email_username = <<>> \/ creds.email_password = <<>>
    \/ ConfiguredRecipients = <<>>

\* C24: with a required configuration value missing the run builds no
\* candidate list and issues no GET, invokes the mail sender not once, and
\* ends in failure with emails_sent = 0 and reminders_found = 0.
C24_MissingConfigFailsEarly ==
    ConfigIncomplete =>
        /\ pc \in {"run", "done"}
        /\ urls_to_try = <<>> /\ gets = <<>> /\ mail.log = <<>>
        /\ pc = "done" =>
              /\ ~result.success
              /\ result.emails_sent = 0 /\ result.reminders_found = 0

====
